---- MODULE Spec2Model ----
(***************************************************************************)
(* RocksDBTableOfTensors<K, V> (rocksdb_table_op.cc), instantiated for     *)
(* K = int64 and V = int16: one table over a store that holds several      *)
(* column families ("namespaces").  Keys and values are modelled as the    *)
(* byte strings the code hands to the store; a key tensor is a buffer      *)
(* base address plus the key values it holds.                              *)
(***************************************************************************)
EXTENDS Integers, Sequences, FiniteSets, TLC

VARIABLES
  cf,             \* the store: column family name -> (key bytes -> value bytes)
  handles,        \* live ColumnFamilyHandle objects: handle id -> family name
  colHandles,     \* std::vector<ColumnFamilyHandle*> colHandles
  colIndex,       \* size_t colIndex (0-based)
  readOnly,       \* bool readOnly
  colHandleCache, \* std::vector<ColumnFamilyHandle*> colHandleCache
  file,           \* RDB_EXPORT_PATH: whether it exists, and its bytes
  last,           \* the most recent call: its arguments, status, output, store calls
  run,            \* the calls in progress, where a call is taken step by step
  hist            \* the handles opened and released so far, in order

vars == <<cf, handles, colHandles, colIndex, readOnly, colHandleCache, file, last,
          run, hist>>

(* ------------------------------ constants ------------------------------ *)
RDB_BATCH_MODE_MIN_QUERY_SIZE == 2
RDB_BATCH_MODE_MAX_QUERY_SIZE == 128
RDB_EXPORT_FILE_MAGIC == <<84, 70, 75, 86>>
RDB_EXPORT_FILE_VERSION == 1

SizeofK == 8        \* sizeof(int64)
SizeofPtr == 8      \* sizeof(const K *)
SizeofV == 2        \* sizeof(int16)
SizeofU32 == 4      \* sizeof(uint32_t)
MaxU8 == 255        \* std::numeric_limits<uint8_t>::max()

embeddingName == "emb"
NULL == 0           \* nullptr; handle ids start at 1
NoFile == [exists |-> FALSE, bytes |-> <<>>]
FileOf(bytes) == [exists |-> TRUE, bytes |-> bytes]

(* ------------------------------- bounds -------------------------------- *)
MaxKeys == 2        \* largest batch a call passes
ValueWidth == 2     \* value_shape: elements per key (valuesPerDim0)
MaxLoad == 129      \* largest batch of the snapshot specification
NumThreads == 2     \* callers running at the same time
MaxEvents == 6      \* handle events followed in the lifetime specification
MaxSlice == 10      \* longest slice of the codec specification, in bytes
MaxTexts == 2       \* most elements of a tstring tensor

(* ------------------------------- helpers ------------------------------- *)

RECURSIVE LE(_, _)
\* the w little-endian bytes of the non-negative number n
LE(n, w) == IF w = 0 THEN <<>> ELSE <<n % 256>> \o LE(n \div 256, w - 1)

RECURSIVE FromLE(_)
\* the number whose little-endian bytes are b
FromLE(b) == IF b = <<>> THEN 0 ELSE Head(b) + 256 * FromLE(Tail(b))

RECURSIVE Concat(_)
Concat(ss) == IF ss = <<>> THEN <<>> ELSE Head(ss) \o Concat(Tail(ss))

\* memcmp-then-length order of two byte strings (the store's bytewise comparator)
RECURSIVE BytesLess(_, _)
BytesLess(a, b) ==
  IF b = <<>> THEN FALSE
  ELSE IF a = <<>> THEN TRUE
  ELSE IF Head(a) # Head(b) THEN Head(a) < Head(b)
  ELSE BytesLess(Tail(a), Tail(b))

\* the keys of S in the iterator's order: the i-th is the key that i - 1
\* keys of S precede
SortedKeys(S) ==
  LET rank == [k \in S |-> Cardinality({o \in S : BytesLess(o, k)})] @@ <<>>
  IN [i \in 1..Cardinality(S) |-> CHOOSE k \in S : rank[k] = i - 1]

(* -------------------------------- codec -------------------------------- *)
\* assignSlice(rocksdb::Slice&, const T&) with T = K: the key's own bytes
assignSliceValue(k) == LE(k, SizeofK)

\* assignSlice(rocksdb::Slice&, const T&) with T = const K*: src is the
\* pointer variable, so the slice is the sizeof(pointer) bytes of the address
assignSlicePointer(addr) == LE(addr, SizeofPtr)

\* assignSlice(PinnableSlice&, const T* src, numValues): the raw bytes of
\* numValues elements
assignSliceValues(v) == Concat([i \in 1..Len(v) |-> LE(v[i], SizeofV)])

\* copyToTensor<T>: throws unless slice.size() = numValues * sizeof(T),
\* else memcpy
copyToTensor(slice, numValues) ==
  IF Len(slice) # numValues * SizeofV
  THEN [ok |-> FALSE, v |-> <<>>]
  ELSE [ok |-> TRUE,
        v |-> [i \in 1..numValues |->
                 FromLE(SubSeq(slice, (i - 1) * SizeofV + 1, i * SizeofV))]]

\* the loop of copyToTensor<tstring> that forgets the test after the loop
copyToTensorTextNoEnd(slice, numValues) ==
  LET RECURSIVE Loop(_, _, _)
      Loop(n, src, dst) ==
        IF n = 0 THEN [ok |-> TRUE, v |-> dst]
        ELSE IF src + SizeofU32 > Len(slice) THEN [ok |-> FALSE, v |-> <<>>]
        ELSE LET length == FromLE(SubSeq(slice, src + 1, src + SizeofU32))
                 from == src + SizeofU32
             IN IF from + length > Len(slice) THEN [ok |-> FALSE, v |-> <<>>]
                ELSE Loop(n - 1, from + length,
                          Append(dst, SubSeq(slice, from + 1, from + length)))
  IN Loop(numValues, 0, <<>>)

\* copyToTensor<tstring>: src is an offset into slice and srcEnd its size;
\* throws when a length or a body would pass srcEnd and when src is not
\* srcEnd after numValues elements
copyToTensorText(slice, numValues) ==
  LET RECURSIVE Loop(_, _, _)
      Loop(n, src, dst) ==
        IF n = 0
        THEN IF src # Len(slice) THEN [ok |-> FALSE, v |-> <<>>]
             ELSE [ok |-> TRUE, v |-> dst]
        ELSE IF src + SizeofU32 > Len(slice) THEN [ok |-> FALSE, v |-> <<>>]
        ELSE LET length == FromLE(SubSeq(slice, src + 1, src + SizeofU32))
                 from == src + SizeofU32
             IN IF from + length > Len(slice) THEN [ok |-> FALSE, v |-> <<>>]
                ELSE Loop(n - 1, from + length,
                          Append(dst, SubSeq(slice, from + 1, from + length)))
  IN Loop(numValues, 0, <<>>)

\* assignSlice<tstring>(PinnableSlice&, src, numValues): each element's size
\* as a uint32, then its bytes; throws on a size a uint32 cannot hold
assignSliceTexts(src) ==
  IF \E i \in DOMAIN src : Len(src[i]) \div 65536 >= 65536   \* > uint32 max
  THEN [ok |-> FALSE, d |-> <<>>]
  ELSE [ok |-> TRUE,
        d |-> Concat([i \in 1..Len(src) |->
                        LE(Len(src[i]), SizeofU32) \o src[i]])]

(* -------------------------------- store -------------------------------- *)
EmptyData == [k \in {} |-> <<>>]

Restrict(f, S) == [x \in S |-> f[x]]

\* the table's fields and the store, as one value the operations transform
Table == [cf |-> cf, handles |-> handles, colHandles |-> colHandles,
          colIndex |-> colIndex, readOnly |-> readOnly,
          colHandleCache |-> colHandleCache, file |-> file]

\* one store call, as logged in last.calls: elem is the position in the batch
Call(api, h, name, key, elem) ==
  [api |-> api, h |-> h, cf |-> name, key |-> key, elem |-> elem]

\* the family a live handle addresses ("?" for a null or destroyed handle)
FamilyOf(t, h) == IF h \in DOMAIN t.handles THEN t.handles[h] ELSE "?"

\* rocksdb::DB::Get / one key of MultiGet, on the family named name
DbGet(t, name, key) ==
  IF name \in DOMAIN t.cf /\ key \in DOMAIN t.cf[name]
  THEN [found |-> TRUE, value |-> t.cf[name][key]]
  ELSE [found |-> FALSE, value |-> <<>>]

\* rocksdb::DB::Put / WriteBatch::Put once written
DbPut(store, name, key, value) ==
  [store EXCEPT ![name] = (key :> value) @@ @]

\* rocksdb::DB::Delete / WriteBatch::Delete once written
DbDelete(store, name, key) ==
  [store EXCEPT ![name] = Restrict(@, DOMAIN @ \ {key})]

\* a fresh ColumnFamilyHandle object
NewHandle(t) ==
  CHOOSE h \in 1..(Cardinality(DOMAIN t.handles) + 1) :
    /\ h \notin DOMAIN t.handles
    /\ \A g \in 1..(h - 1) : g \in DOMAIN t.handles

(* ------------------------- namespace bookkeeping ------------------------ *)
RECURSIVE CtorColIndex(_, _, _)
\* the constructor's loop over colFamilies: ++colIndex until the name is seen
CtorColIndex(colFamilies, colFamilyExists, idx) ==
  IF colFamilies = <<>> THEN idx
  ELSE LET exists == colFamilyExists \/ Head(colFamilies) = embeddingName
       IN CtorColIndex(Tail(colFamilies), exists,
                       IF exists THEN idx ELSE idx + 1)

\* GetOrCreateColumnHandle(): ok is FALSE when RDB_OK throws
GetOrCreateColumnHandle(t) ==
  IF t.colIndex >= Len(t.colHandles)
  THEN IF t.readOnly
       THEN [t |-> t, h |-> NULL, ok |-> TRUE, calls |-> <<>>]
       ELSE IF embeddingName \in DOMAIN t.cf
       THEN [t |-> t, h |-> NULL, ok |-> FALSE,
             calls |-> <<Call("CreateColumnFamily", NULL, embeddingName, <<>>, 0)>>]
       ELSE LET colHandle == NewHandle(t)
                t1 == [t EXCEPT
                         !.cf = (embeddingName :> EmptyData) @@ @,
                         !.handles = (colHandle :> embeddingName) @@ @,
                         !.colHandles = Append(@, colHandle)]
            IN [t |-> t1,
                h |-> IF t1.colIndex < Len(t1.colHandles)
                      THEN t1.colHandles[t1.colIndex + 1] ELSE NULL,
                ok |-> TRUE,
                calls |-> <<Call("CreateColumnFamily", NULL, embeddingName, <<>>, 0)>>]
  ELSE [t |-> t, h |-> t.colHandles[t.colIndex + 1], ok |-> TRUE, calls |-> <<>>]

\* what a call hands back: the new table/store, the status, the output tensor
\* (Find only) and the store calls it issued
Ret(t, status, out, calls) ==
  [t |-> t, status |-> status, out |-> out, calls |-> calls]

\* a clear that leaves colIndex where it was
ClearKeepsIndex(t0) ==
  LET t == [t0 EXCEPT !.colHandleCache = <<>>]
  IN IF t.colIndex < Len(t.colHandles)
     THEN IF t.readOnly
          THEN [t |-> t, status |-> "PermissionDenied", out |-> <<>>,
                calls |-> <<>>]
          ELSE LET h == t.colHandles[t.colIndex + 1]
                   name == IF h \in DOMAIN t.handles THEN t.handles[h] ELSE "?"
               IN [t |-> [t EXCEPT
                            !.cf = [x \in DOMAIN @ \ {name} |-> @[x]],
                            !.handles = [x \in DOMAIN @ \ {h} |-> @[x]],
                            !.colHandles =
                              [i \in 1..(Len(@) - 1) |->
                                 IF i <= t.colIndex THEN @[i] ELSE @[i + 1]]],
                   status |-> "OK", out |-> <<>>, calls |-> <<>>]
     ELSE [t |-> t, status |-> "OK", out |-> <<>>, calls |-> <<>>]

\* a clear that leaves the family in place
ClearKeeps(t0) == Ret([t0 EXCEPT !.colHandleCache = <<>>], "OK", <<>>, <<>>)

\* Clear()
Clear(t0) ==
  LET t == [t0 EXCEPT !.colHandleCache = <<>>]
  IN IF t.colIndex < Len(t.colHandles)
     THEN IF t.readOnly
          THEN Ret(t, "PermissionDenied", <<>>, <<>>)
          ELSE LET h == t.colHandles[t.colIndex + 1]
                   name == FamilyOf(t, h)
                   erased == [i \in 1..(Len(t.colHandles) - 1) |->
                                IF i <= t.colIndex THEN t.colHandles[i]
                                ELSE t.colHandles[i + 1]]
               IN Ret([t EXCEPT
                         !.cf = Restrict(@, DOMAIN @ \ {name}),
                         !.handles = Restrict(@, DOMAIN @ \ {h}),
                         !.colHandles = erased,
                         !.colIndex = Len(erased)],
                      "OK", <<>>,
                      <<Call("DropColumnFamily", h, name, <<>>, 0),
                        Call("DestroyColumnFamilyHandle", h, name, <<>>, 0)>>)
     ELSE Ret(t, "OK", <<>>, <<>>)

(* ------------------------- undefined behaviour ------------------------- *)
\* What the build makes of the undefined operations the code can reach:
\*   div      integer division or modulo by zero: "trap" (SIGFPE), or "zero"
\*            (quotient 0, remainder = the dividend)
\*   garbage  the element an out-of-bounds read of default_value yields
\*   oob      the family a pointer read past the end of colHandles happens
\*            to address, or "trap"
\*   hardened operator[] past the end of a std::vector aborts (assertions on)
\*   nullcf   a store call on a null handle: "trap", or "empty" (no records)
FindUB ==
  {[div |-> "trap", garbage |-> 0, oob |-> "trap", hardened |-> TRUE],
   [div |-> "trap", garbage |-> 0, oob |-> "default", hardened |-> FALSE],
   [div |-> "zero", garbage |-> 0, oob |-> embeddingName, hardened |-> FALSE],
   [div |-> "zero", garbage |-> 99, oob |-> "trap", hardened |-> FALSE]}
InsertUB == [div : {"trap", "zero"}]
ExportUB == [nullcf : {"trap", "empty"}]

\* a % b as the hardware computes it once the build did not trap
Rem(a, b) == IF b = 0 THEN a ELSE a % b

(* --------------------------------- Find -------------------------------- *)
\* the slot of one key, from the status of its read: copyToTensor on a hit,
\* std::copy_n(&d[vOffset % dSize], valuesPerDim0, &v[vOffset]) on a miss
FindSlot(r, d, vOffset, valuesPerDim0, ub) ==
  IF r.found
  THEN LET c == copyToTensor(r.value, valuesPerDim0)
       IN IF c.ok THEN [status |-> "OK", v |-> c.v]
          ELSE [status |-> "Exception", v |-> <<>>]
  ELSE LET dSize == Len(d)
       IN IF dSize = 0 /\ ub.div = "trap"
          THEN [status |-> "Crash", v |-> <<>>]
          ELSE [status |-> "OK",
                v |-> [j \in 1..valuesPerDim0 |->
                         LET at == Rem(vOffset, dSize) + (j - 1)
                         IN IF at < dSize THEN d[at + 1] ELSE ub.garbage]]

RECURSIVE FindPoint(_, _, _, _, _, _, _, _)
\* the loop of the point path, from key i (0-based) on
FindPoint(t, colHandle, in, valuesPerDim0, ub, i, out, calls) ==
  IF i >= Len(in.keys) THEN Ret(t, "OK", out, calls)
  ELSE LET kSlice == assignSlicePointer(in.addr + i * SizeofK)
           name == FamilyOf(t, colHandle)
           r == IF colHandle # NULL THEN DbGet(t, name, kSlice)
                ELSE [found |-> FALSE, value |-> <<>>]
           calls1 == IF colHandle # NULL
                     THEN Append(calls, Call("Get", colHandle, name, kSlice, i + 1))
                     ELSE calls
           slot == FindSlot(r, in.dflt, i * valuesPerDim0, valuesPerDim0, ub)
       IN IF slot.status # "OK" THEN Ret(t, slot.status, out, calls1)
          ELSE FindPoint(t, colHandle, in, valuesPerDim0, ub, i + 1,
                         out \o slot.v, calls1)

\* db->MultiGet(readOptions, colHandles, kSlices, &vSlices): key i is read
\* from the family of colHandles[i]
MultiGet(t, kSlices, ub) ==
  [i \in 1..Len(kSlices) |->
     LET inRange == i <= Len(t.colHandles)
         h == IF inRange THEN t.colHandles[i] ELSE NULL
         name == IF inRange THEN FamilyOf(t, h) ELSE ub.oob
         valid == name \in DOMAIN t.cf
     IN [valid |-> valid,
         call |-> Call("MultiGet", h, IF inRange THEN name ELSE "out of range",
                       kSlices[i], i),
         r |-> DbGet(t, name, kSlices[i])]]

RECURSIVE FindBulkResults(_, _, _, _, _, _, _, _)
\* the result loop of the bulk path, from key i (0-based) on
FindBulkResults(t, rs, in, valuesPerDim0, ub, i, out, calls) ==
  IF i >= Len(in.keys) THEN Ret(t, "OK", out, calls)
  ELSE LET slot == FindSlot(rs[i + 1], in.dflt, i * valuesPerDim0,
                            valuesPerDim0, ub)
       IN IF slot.status # "OK" THEN Ret(t, slot.status, out, calls)
          ELSE FindBulkResults(t, rs, in, valuesPerDim0, ub, i + 1,
                               out \o slot.v, calls)

\* the bulk path of Find
FindBulk(t0, colHandle, in, valuesPerDim0, ub) ==
  LET numKeys == Len(in.keys)
      t == [t0 EXCEPT !.colHandleCache =
              @ \o [i \in 1..(IF Len(@) < numKeys THEN numKeys - Len(@) ELSE 0)
                      |-> colHandle]]
      kSlices == [i \in 1..numKeys |-> assignSliceValue(in.keys[i])]
      mg == MultiGet(t, kSlices, ub)
      calls == [i \in 1..numKeys |-> mg[i].call]
  IN IF colHandle # NULL
     THEN IF \E i \in 1..numKeys : ~mg[i].valid
          THEN Ret(t, "Crash", <<>>, calls)
          ELSE FindBulkResults(t, [i \in 1..numKeys |-> mg[i].r], in,
                               valuesPerDim0, ub, 0, <<>>, calls)
     ELSE IF ub.hardened
          THEN Ret(t, "Crash", <<>>, <<>>)
          ELSE FindBulkResults(t, [i \in 1..numKeys |->
                                     [found |-> FALSE, value |-> <<>>]],
                               in, valuesPerDim0, ub, 0, <<>>, <<>>)

\* Find(ctx, keys, values, default_value); in = [dtypesOk, keys, addr,
\* numValues, dflt], keys being the key values held at address addr
Find(t0, in, ub) ==
  IF ~in.dtypesOk THEN Ret(t0, "InvalidArgument", <<>>, <<>>)
  ELSE
  LET g == GetOrCreateColumnHandle(t0)
      t == g.t
      numKeys == Len(in.keys)
      numValues == in.numValues
      valuesPerDim0 == IF numValues = 0 THEN 0
                       ELSE (numValues * ValueWidth) \div numValues
      dSize == Len(in.dflt)
  IN IF ~g.ok THEN Ret(t, "Exception", <<>>, g.calls)
     ELSE IF numKeys # numValues THEN Ret(t, "InvalidArgument", <<>>, g.calls)
     ELSE IF numValues = 0 /\ ub.div = "trap" THEN Ret(t, "Crash", <<>>, g.calls)
     ELSE IF valuesPerDim0 = 0 /\ ub.div = "trap" THEN Ret(t, "Crash", <<>>, g.calls)
     ELSE IF Rem(dSize, valuesPerDim0) # 0
     THEN Ret(t, "InvalidArgument", <<>>, g.calls)
     ELSE IF numKeys < RDB_BATCH_MODE_MIN_QUERY_SIZE
     THEN FindPoint(t, g.h, in, valuesPerDim0, ub, 0, <<>>, g.calls)
     ELSE LET r == FindBulk(t, g.h, in, valuesPerDim0, ub)
          IN Ret(r.t, r.status, r.out, g.calls \o r.calls)

(* ---------------------------- Insert / Remove --------------------------- *)
\* InsertStep with the record written at once, whatever the path
InsertStepAtOnce(t, colHandle, in, valuesPerDim0, api, i, acc) ==
  LET kSlice == assignSlicePointer(in.addr + i * SizeofK)
      vSlice == assignSliceValues(
                  SubSeq(in.values, i * valuesPerDim0 + 1,
                         (i + 1) * valuesPerDim0))
      name == FamilyOf(t, colHandle)
  IN [store |-> DbPut(acc.store, name, kSlice, vSlice),
      batch |-> Append(acc.batch, <<"Put", name, kSlice, vSlice>>),
      calls |-> Append(acc.calls, Call(api, colHandle, name, kSlice, i + 1))]

\* one pass of the loop both paths of Insert share, for key i (0-based): api
\* is "Put" on the point path (written at once) and "WriteBatch.Put" on the
\* bulk path (collected in batch, a sequence of operations)
InsertStep(t, colHandle, in, valuesPerDim0, api, i, acc) ==
  LET kSlice == assignSlicePointer(in.addr + i * SizeofK)
      vSlice == assignSliceValues(
                  SubSeq(in.values, i * valuesPerDim0 + 1,
                         (i + 1) * valuesPerDim0))
      name == FamilyOf(t, colHandle)
  IN [store |-> IF api = "Put" THEN DbPut(acc.store, name, kSlice, vSlice)
                ELSE acc.store,
      batch |-> IF api = "Put" THEN acc.batch
                ELSE Append(acc.batch, <<"Put", name, kSlice, vSlice>>),
      calls |-> Append(acc.calls, Call(api, colHandle, name, kSlice, i + 1))]

RECURSIVE InsertLoop(_, _, _, _, _, _, _, _)
\* the passes for keys lo .. hi - 1 in order (evaluated as two halves, which
\* keeps the evaluation shallow for long batches)
InsertLoop(t, colHandle, in, valuesPerDim0, api, lo, hi, acc) ==
  IF hi <= lo THEN acc
  ELSE IF hi = lo + 1
  THEN InsertStep(t, colHandle, in, valuesPerDim0, api, lo, acc)
  ELSE LET mid == (lo + hi) \div 2
           left == InsertLoop(t, colHandle, in, valuesPerDim0, api, lo, mid, acc)
       IN IF Len(left.calls) >= 0   \* the first half is evaluated first
          THEN InsertLoop(t, colHandle, in, valuesPerDim0, api, mid, hi, left)
          ELSE left

\* one operation of a WriteBatch applied to the store
WriteOp(store, op) ==
  IF op[1] = "Put" THEN DbPut(store, op[2], op[3], op[4])
  ELSE DbDelete(store, op[2], op[3])

RECURSIVE WriteRange(_, _, _, _)
\* operations lo .. hi - 1 (1-based) of batch applied in order
WriteRange(store, batch, lo, hi) ==
  IF hi <= lo THEN store
  ELSE IF hi = lo + 1 THEN WriteOp(store, batch[lo])
  ELSE LET mid == (lo + hi) \div 2
           left == WriteRange(store, batch, lo, mid)
       IN IF DOMAIN left # {}   \* the first half is evaluated first
          THEN WriteRange(left, batch, mid, hi)
          ELSE left

\* db->Write(writeOptions, &batch): the batch's operations, in order, at once
Write(store, batch) == WriteRange(store, batch, 1, Len(batch) + 1)

\* Insert(ctx, keys, values); in = [dtypesOk, keys, addr, numValues, values]
Insert(t0, in, ub) ==
  IF ~in.dtypesOk THEN Ret(t0, "InvalidArgument", <<>>, <<>>)
  ELSE
  LET g == GetOrCreateColumnHandle(t0)
      t == g.t
      colHandle == g.h
      numKeys == Len(in.keys)
      numValues == in.numValues
      valuesPerDim0 == IF numValues = 0 THEN 0
                       ELSE (numValues * ValueWidth) \div numValues
      start == [store |-> t.cf, batch |-> <<>>, calls |-> g.calls]
  IN IF ~g.ok THEN Ret(t, "Exception", <<>>, g.calls)
     ELSE IF colHandle = NULL \/ t.readOnly
     THEN Ret(t, "PermissionDenied", <<>>, g.calls)
     ELSE IF numKeys # numValues THEN Ret(t, "InvalidArgument", <<>>, g.calls)
     ELSE IF numValues = 0 /\ ub.div = "trap" THEN Ret(t, "Crash", <<>>, g.calls)
     ELSE IF numKeys < RDB_BATCH_MODE_MIN_QUERY_SIZE
     THEN LET r == InsertLoop(t, colHandle, in, valuesPerDim0, "Put",
                              0, numKeys, start)
          IN Ret([t EXCEPT !.cf = r.store], "OK", <<>>, r.calls)
     ELSE LET r == InsertLoop(t, colHandle, in, valuesPerDim0,
                              "WriteBatch.Put", 0, numKeys, start)
          IN Ret([t EXCEPT !.cf = Write(r.store, r.batch)], "OK", <<>>,
                 Append(r.calls, Call("Write", NULL, "", <<>>, 0)))

\* one pass of the loop both paths of Remove share, for key i (0-based)
RemoveStep(t, colHandle, in, api, i, acc) ==
  LET kSlice == assignSlicePointer(in.addr + i * SizeofK)
      name == FamilyOf(t, colHandle)
  IN [store |-> IF api = "Delete" THEN DbDelete(acc.store, name, kSlice)
                ELSE acc.store,
      batch |-> IF api = "Delete" THEN acc.batch
                ELSE Append(acc.batch, <<"Delete", name, kSlice>>),
      calls |-> Append(acc.calls, Call(api, colHandle, name, kSlice, i + 1))]

RECURSIVE RemoveLoop(_, _, _, _, _, _, _)
\* the passes for keys lo .. hi - 1 in order
RemoveLoop(t, colHandle, in, api, lo, hi, acc) ==
  IF hi <= lo THEN acc
  ELSE IF hi = lo + 1 THEN RemoveStep(t, colHandle, in, api, lo, acc)
  ELSE LET mid == (lo + hi) \div 2
           left == RemoveLoop(t, colHandle, in, api, lo, mid, acc)
       IN IF Len(left.calls) >= 0   \* the first half is evaluated first
          THEN RemoveLoop(t, colHandle, in, api, mid, hi, left)
          ELSE left

\* Remove(ctx, keys); in = [dtypesOk, keys, addr]
Remove(t0, in) ==
  IF ~in.dtypesOk THEN Ret(t0, "InvalidArgument", <<>>, <<>>)
  ELSE
  LET g == GetOrCreateColumnHandle(t0)
      t == g.t
      colHandle == g.h
      numKeys == Len(in.keys)
      start == [store |-> t.cf, batch |-> <<>>, calls |-> g.calls]
  IN IF ~g.ok THEN Ret(t, "Exception", <<>>, g.calls)
     ELSE IF colHandle = NULL \/ t.readOnly
     THEN Ret(t, "PermissionDenied", <<>>, g.calls)
     ELSE IF numKeys < RDB_BATCH_MODE_MIN_QUERY_SIZE
     THEN LET r == RemoveLoop(t, colHandle, in, "Delete", 0, numKeys, start)
          IN Ret([t EXCEPT !.cf = r.store], "OK", <<>>, r.calls)
     ELSE LET r == RemoveLoop(t, colHandle, in, "WriteBatch.Delete",
                              0, numKeys, start)
          IN Ret([t EXCEPT !.cf = Write(r.store, r.batch)], "OK", <<>>,
                 Append(r.calls, Call("Write", NULL, "", <<>>, 0)))

(* ---------------------------- Export / Import --------------------------- *)
\* the two file.write calls of the header
Header == RDB_EXPORT_FILE_MAGIC \o LE(RDB_EXPORT_FILE_VERSION, SizeofU32)

\* a record frame whose value length counts elements, not bytes
FrameCountsElements(k, v) ==
  <<Len(k)>> \o k \o LE(Len(v) \div SizeofV, SizeofU32) \o v

\* the four file.write calls of one record
Frame(k, v) == <<Len(k)>> \o k \o LE(Len(v), SizeofU32) \o v

\* one pass of the iterator loop of ExportValues: throws on a key longer
\* than a uint8 can tell, else appends the record's frame
ExportStep(data, k, acc) ==
  IF ~acc.ok THEN acc
  ELSE IF Len(k) > MaxU8 THEN [acc EXCEPT !.ok = FALSE]
  ELSE [acc EXCEPT !.bytes = @ \o Frame(k, data[k])]

RECURSIVE ExportLoop(_, _, _, _, _)
\* the passes for keys[lo] .. keys[hi - 1] in order
ExportLoop(data, keys, lo, hi, acc) ==
  IF hi <= lo THEN acc
  ELSE IF hi = lo + 1 THEN ExportStep(data, keys[lo], acc)
  ELSE LET mid == (lo + hi) \div 2
           left == ExportLoop(data, keys, lo, mid, acc)
       IN IF Len(left.bytes) >= 0   \* the first half is evaluated first
          THEN ExportLoop(data, keys, mid, hi, left)
          ELSE left

\* ExportValues(ctx); canOpen: whether the dump file can be opened for writing
ExportValues(t0, canOpen, ub) ==
  IF ~canOpen THEN Ret(t0, "Unknown", <<>>, <<>>)
  ELSE
  LET g == GetOrCreateColumnHandle(t0)
      t == g.t
      colHandle == g.h
      name == FamilyOf(t, colHandle)
      calls == Append(g.calls, Call("NewIterator", colHandle, name, <<>>, 0))
  IN IF ~g.ok THEN Ret([t EXCEPT !.file = FileOf(Header)], "Exception", <<>>, g.calls)
     ELSE IF colHandle = NULL
     THEN IF ub.nullcf = "trap"
          THEN Ret([t EXCEPT !.file = FileOf(<<>>)], "Crash", <<>>, calls)
          ELSE Ret([t EXCEPT !.file = FileOf(Header)], "OK", <<>>, calls)
     ELSE LET data == t.cf[name]
              keys == SortedKeys(DOMAIN data)
              r == ExportLoop(data, keys, 1, Len(keys) + 1,
                              [ok |-> TRUE, bytes |-> Header])
          IN Ret([t EXCEPT !.file = FileOf(r.bytes)],
                 IF r.ok THEN "OK" ELSE "Exception", <<>>, calls)

\* file.read(dst, n) at offset pos: fails, setting eofbit, when fewer than n
\* bytes are left
FileRead(f, pos, n) ==
  IF pos + n <= Len(f)
  THEN [ok |-> TRUE, bytes |-> SubSeq(f, pos + 1, pos + n), pos |-> pos + n,
        eof |-> FALSE]
  ELSE [ok |-> FALSE, bytes |-> <<>>, pos |-> Len(f), eof |-> TRUE]

\* a batch test with the wrong threshold
BatchFullAtMin(count) == (count % RDB_BATCH_MODE_MIN_QUERY_SIZE) = 0

\* the batch reached the target size
BatchFull(count) == (count % RDB_BATCH_MODE_MAX_QUERY_SIZE) = 0

\* the four reads of one record and batch.Put: the first read that fails
\* ends the call with errorEOF
ImportPut(st, name, colHandle, f) ==
  LET rk == FileRead(f, st.pos, 1)
      kSize == IF rk.ok THEN rk.bytes[1] ELSE 0
      k == FileRead(f, rk.pos, kSize)
      rv == FileRead(f, k.pos, SizeofU32)
      vSize == IF rv.ok THEN FromLE(rv.bytes) ELSE 0
      v == FileRead(f, rv.pos, vSize)
  IN IF ~rk.ok \/ ~k.ok \/ ~rv.ok \/ ~v.ok
     THEN [st EXCEPT !.status = "OutOfRange", !.done = TRUE]
     ELSE [st EXCEPT
             !.batch = Append(@, <<"Put", name, k.bytes, v.bytes>>),
             !.calls = Append(@, Call("WriteBatch.Put", colHandle, name,
                                      k.bytes, st.n + 1)),
             !.n = @ + 1, !.pos = v.pos, !.eof = v.eof]

\* a commit that leaves the written entries in the batch
ImportCommitKeeps(st) ==
  IF BatchFull(Len(st.batch))
  THEN [st EXCEPT !.store = Write(@, st.batch),
                  !.calls = Append(@, Call("Write", NULL, "", <<>>, 0))]
  ELSE st

\* if the batch reached the target size: db->Write, then batch.Clear
ImportCommit(st) ==
  IF BatchFull(Len(st.batch))
  THEN [st EXCEPT !.store = Write(@, st.batch), !.batch = <<>>,
                  !.calls = Append(@, Call("Write", NULL, "", <<>>, 0))]
  ELSE st

\* once the loop is left, the write of the remaining entries, if any
ImportRest(st) ==
  IF Len(st.batch) # 0
  THEN [st EXCEPT !.store = Write(@, st.batch),
                  !.calls = Append(@, Call("Write", NULL, "", <<>>, 0)),
                  !.done = TRUE]
  ELSE [st EXCEPT !.done = TRUE]

\* one pass of while (!file.eof()) { ... } and, once the loop is left, the
\* write of the remaining entries; st.eof is the stream's eofbit, st.batch the
\* pending WriteBatch, st.done whether the call has returned
ImportStep(st, name, colHandle, f) ==
  IF st.done THEN st
  ELSE IF st.eof THEN ImportRest(st)
  ELSE LET put == ImportPut(st, name, colHandle, f)
       IN IF put.done THEN put ELSE ImportCommit(put)

RECURSIVE ImportLoop(_, _, _, _, _, _)
\* passes lo .. hi - 1 in order
ImportLoop(st, name, colHandle, f, lo, hi) ==
  IF hi <= lo THEN st
  ELSE IF hi = lo + 1 THEN ImportStep(st, name, colHandle, f)
  ELSE LET mid == (lo + hi) \div 2
           left == ImportLoop(st, name, colHandle, f, lo, mid)
       IN IF left.n >= 0   \* the first half is evaluated first
          THEN ImportLoop(left, name, colHandle, f, mid, hi)
          ELSE left

\* a pass that does not end the call reads at least 1 + 4 bytes, so the call
\* has returned after this many passes
ImportPasses(f) == Len(f) \div (1 + SizeofU32) + 2

\* a header test that forgets the version
HeaderMagicOnly(magic, version) == magic = RDB_EXPORT_FILE_MAGIC

\* the header test: magic and version are the ones ExportValues writes
HeaderMatches(magic, version) ==
  magic = RDB_EXPORT_FILE_MAGIC /\ FromLE(version) = RDB_EXPORT_FILE_VERSION

\* ImportValues up to its loop: Clear, the open of the file, the header and
\* GetOrCreateColumnHandle. loop tells whether the loop is entered; if not,
\* ret is what the call returns; st is the loop's state at its first pass
ImportHead(t0) ==
  LET c == Clear(t0)
      f == c.t.file.bytes
      magic == FileRead(f, 0, SizeofU32)
      version == FileRead(f, magic.pos, SizeofU32)
      g == GetOrCreateColumnHandle(c.t)
      t == g.t
      calls == c.calls \o g.calls
      ret == IF c.status # "OK" THEN c
             ELSE IF ~c.t.file.exists THEN Ret(c.t, "NotFound", <<>>, c.calls)
             ELSE IF ~magic.ok THEN Ret(c.t, "OutOfRange", <<>>, c.calls)
             ELSE IF ~version.ok THEN Ret(c.t, "OutOfRange", <<>>, c.calls)
             ELSE IF ~HeaderMatches(magic.bytes, version.bytes)
             THEN Ret(c.t, "Internal", <<>>, c.calls)
             ELSE IF ~g.ok THEN Ret(t, "Exception", <<>>, calls)
             ELSE IF g.h = NULL \/ t.readOnly
             THEN Ret(t, "PermissionDenied", <<>>, calls)
             ELSE Ret(t, "OK", <<>>, calls)
  IN [loop |-> /\ c.status = "OK" /\ c.t.file.exists /\ magic.ok /\ version.ok
               /\ HeaderMatches(magic.bytes, version.bytes)
               /\ g.ok /\ g.h # NULL /\ ~t.readOnly,
      ret |-> ret,
      colHandle |-> g.h,
      name |-> FamilyOf(t, g.h),
      st |-> [store |-> t.cf, batch |-> <<>>, calls |-> calls,
              status |-> "OK", n |-> 0, pos |-> version.pos,
              eof |-> version.eof, done |-> FALSE]]

\* ImportValues(ctx, keys, values): the tensors are not used
ImportValues(t0) ==
  LET hd == ImportHead(t0)
      f == hd.ret.t.file.bytes
      r == ImportLoop(hd.st, hd.name, hd.colHandle, f, 0, ImportPasses(f))
  IN IF ~hd.loop THEN hd.ret
     ELSE Ret([hd.ret.t EXCEPT !.cf = r.store], r.status, <<>>, r.calls)

(* -------------------------------- inputs -------------------------------- *)
\* int64 keys: any bit pattern is a key, among them one equal to an address
KeyVals == {1, 4096}
\* key buffers start at these addresses; the second is the first's element 1
\* (a slice of the same tensor buffer)
BufAddrs == {4096, 4096 + SizeofK}

SeqsUpTo(S, n) == UNION {[1..m -> S] : m \in 0..n}

\* the value vector number q
Vec(q) == [j \in 1..ValueWidth |-> 10 * (q + 1) + j]

\* a values tensor of n rows: row i (0-based) is Vec((p + i) % 2)
ValuesOf(p, n) ==
  [e \in 1..(n * ValueWidth) |->
     Vec((p + ((e - 1) \div ValueWidth)) % 2)[((e - 1) % ValueWidth) + 1]]

\* a default_value tensor of n elements
DefaultOf(n) == [i \in 1..n |-> 100 + i]

DefaultLens == {0, ValueWidth, 2 * ValueWidth}

FindInputs ==
  {[dtypesOk |-> TRUE, keys |-> ks, addr |-> a, numValues |-> Len(ks),
    dflt |-> DefaultOf(n)] :
     ks \in SeqsUpTo(KeyVals, MaxKeys), a \in BufAddrs, n \in DefaultLens}
  \cup {[dtypesOk |-> ok, keys |-> <<1>>, addr |-> 4096, numValues |-> nv,
         dflt |-> DefaultOf(n)] :
          ok \in BOOLEAN, nv \in {1, 2}, n \in {1, ValueWidth}}

InsertInputs ==
  {[dtypesOk |-> TRUE, keys |-> ks, addr |-> a, numValues |-> Len(ks),
    values |-> ValuesOf(p, Len(ks))] :
     ks \in SeqsUpTo(KeyVals, MaxKeys), a \in BufAddrs, p \in {0}}
  \cup {[dtypesOk |-> ok, keys |-> <<1>>, addr |-> 4096, numValues |-> nv,
         values |-> ValuesOf(0, nv)] :
          ok \in BOOLEAN, nv \in {1, 2}}

RemoveInputs ==
  {[dtypesOk |-> TRUE, keys |-> ks, addr |-> a] :
     ks \in SeqsUpTo(KeyVals, MaxKeys), a \in BufAddrs}
  \cup {[dtypesOk |-> FALSE, keys |-> <<1>>, addr |-> 4096]}

\* the batch sizes of the snapshot specification: around the import threshold
LoadSizes ==
  {1, RDB_BATCH_MODE_MAX_QUERY_SIZE - 1, RDB_BATCH_MODE_MAX_QUERY_SIZE, MaxLoad}

LoadInputs ==
  {[dtypesOk |-> TRUE, keys |-> [i \in 1..n |-> i], addr |-> 4096,
    numValues |-> n, values |-> ValuesOf(0, n)] : n \in LoadSizes}

ProbeInputs ==
  {[dtypesOk |-> TRUE, keys |-> ks, addr |-> 4096, numValues |-> Len(ks),
    dflt |-> DefaultOf(ValueWidth)] : ks \in {<<1>>, <<1, 4096>>}}

\* dump files this program did not write: a bad magic, a bad version, a
\* header cut short, a record cut short, and a complete one-record file
ForeignFiles ==
  {<<84, 70, 75, 0>> \o LE(RDB_EXPORT_FILE_VERSION, SizeofU32),
   RDB_EXPORT_FILE_MAGIC \o LE(RDB_EXPORT_FILE_VERSION + 1, SizeofU32),
   RDB_EXPORT_FILE_MAGIC,
   RDB_EXPORT_FILE_MAGIC \o LE(RDB_EXPORT_FILE_VERSION, SizeofU32)
     \o <<SizeofK>> \o assignSliceValue(1),
   RDB_EXPORT_FILE_MAGIC \o LE(RDB_EXPORT_FILE_VERSION, SizeofU32)
     \o <<SizeofK>> \o assignSliceValue(1)
     \o LE(ValueWidth * SizeofV, SizeofU32) \o assignSliceValues(Vec(1))}

(* --------------------------------- Init --------------------------------- *)
\* what rocksdb::DB::ListColumnFamilies can list: "default" always, the
\* table's family and another table's family in the order they were created
Listings ==
  {<<"default">>, <<"default", embeddingName>>, <<"default", "other">>,
   <<"default", embeddingName, "other">>, <<"default", "other", embeddingName>>}

\* what the table's family can hold when the table is opened: nothing, or a
\* record an earlier Insert wrote from a key buffer at address 4096
EmbContents ==
  {EmptyData, assignSlicePointer(4096) :> assignSliceValues(Vec(0))}

\* the family of another table of this program, of width 1
OtherContents == assignSlicePointer(4096) :> assignSliceValues(<<41>>)

Range(q) == {q[i] : i \in DOMAIN q}

\* no call is in progress
NoRun == [pc |-> "idle"]

NoCall == [op |-> "none", in |-> <<>>, status |-> "OK", out |-> <<>>, calls |-> <<>>]

\* the constructor, on a store that lists colFamilies
InitTable ==
  \E colFamilies \in Listings, ro \in BOOLEAN, emb \in EmbContents :
    /\ embeddingName \notin Range(colFamilies) => emb = EmptyData
    /\ cf = [n \in Range(colFamilies) |->
               IF n = embeddingName THEN emb
               ELSE IF n = "default" THEN EmptyData ELSE OtherContents]
    /\ handles = [h \in 1..Len(colFamilies) |-> colFamilies[h]]
    /\ colHandles = [i \in 1..Len(colFamilies) |-> i]
    /\ colIndex = CtorColIndex(colFamilies, FALSE, 0)
    /\ readOnly = ro
    /\ colHandleCache = <<>>
    /\ file = NoFile
    /\ last = NoCall

Init == InitTable /\ run = NoRun /\ hist = <<>>

(* -------------------------------- actions ------------------------------- *)
\* the state a call leaves, and the record of the call
Done(op, in, r) ==
  /\ cf' = r.t.cf
  /\ handles' = r.t.handles
  /\ colHandles' = r.t.colHandles
  /\ colIndex' = r.t.colIndex
  /\ readOnly' = r.t.readOnly
  /\ colHandleCache' = r.t.colHandleCache
  /\ file' = r.t.file
  /\ last' = [op |-> op, in |-> in, status |-> r.status, out |-> r.out,
              calls |-> r.calls]
  /\ UNCHANGED <<run, hist>>

\* a call that crashed the process ends the run
Alive == last.status # "Crash"

\* the outcomes that can differ for a call: the undefined operations of Find
\* need an empty batch, an empty default or the bulk path
FindUBFor(in) ==
  IF in.numValues = 0 \/ Len(in.dflt) = 0
     \/ Len(in.keys) >= RDB_BATCH_MODE_MIN_QUERY_SIZE
  THEN FindUB ELSE {CHOOSE ub \in FindUB : TRUE}

\* the undefined operation of Insert needs an empty batch
InsertUBFor(in) ==
  IF in.numValues = 0 THEN InsertUB ELSE {CHOOSE ub \in InsertUB : TRUE}

FindCall ==
  /\ Alive
  /\ \E in \in FindInputs : \E ub \in FindUBFor(in) :
       Done("find", in, Find(Table, in, ub))

InsertCall ==
  /\ Alive
  /\ \E in \in InsertInputs : \E ub \in InsertUBFor(in) :
       Done("insert", in, Insert(Table, in, ub))

RemoveCall == Alive /\ \E in \in RemoveInputs : Done("remove", in, Remove(Table, in))

ClearCall == Alive /\ Done("clear", <<>>, Clear(Table))

Next == FindCall \/ InsertCall \/ RemoveCall \/ ClearCall

Spec == Init /\ [][Next]_vars

(* ----------------------- the snapshot specification --------------------- *)
\* the size of the frame of one record with a SizeofK-byte key and a value of
\* ValueWidth elements, and the number of such frames after the header of b
FrameSize == 1 + SizeofK + SizeofU32 + ValueWidth * SizeofV
FrameCount(b) == (Len(b) - Len(Header)) \div FrameSize

\* the key and the value of frame i (0-based) of b
FrameKey(b, i) ==
  SubSeq(b, Len(Header) + i * FrameSize + 2,
         Len(Header) + i * FrameSize + 1 + SizeofK)
FrameValue(b, i) ==
  SubSeq(b, Len(Header) + (i + 1) * FrameSize - ValueWidth * SizeofV + 1,
         Len(Header) + (i + 1) * FrameSize)

\* b is a well-formed snapshot of such records with no key twice: the header,
\* then whole frames up to the end, each with its two length fields
WellFormedSnapshot(b) ==
  /\ Len(b) >= Len(Header)
  /\ SubSeq(b, 1, Len(Header)) = Header
  /\ (Len(b) - Len(Header)) % FrameSize = 0
  /\ \A i \in 0..(FrameCount(b) - 1) :
       /\ b[Len(Header) + i * FrameSize + 1] = SizeofK
       /\ FromLE(SubSeq(b, Len(Header) + i * FrameSize + 2 + SizeofK,
                        Len(Header) + i * FrameSize + 1 + SizeofK + SizeofU32))
            = ValueWidth * SizeofV
  /\ Cardinality({FrameKey(b, i) : i \in 0..(FrameCount(b) - 1)}) = FrameCount(b)

LoadCall ==
  /\ Alive
  /\ \E in \in LoadInputs : \E ub \in InsertUBFor(in) :
       Done("insert", in, Insert(Table, in, ub))

ProbeCall ==
  /\ Alive
  /\ \E in \in ProbeInputs : \E ub \in FindUBFor(in) :
       Done("find", in, Find(Table, in, ub))

ExportCall ==
  /\ Alive
  /\ \E canOpen \in BOOLEAN, ub \in ExportUB :
       Done("export", [canOpen |-> canOpen], ExportValues(Table, canOpen, ub))

ImportCall == Alive /\ Done("import", <<>>, ImportValues(Table))

\* another program writes or removes the file at RDB_EXPORT_PATH
PlaceFile ==
  /\ Alive
  /\ \E f \in {FileOf(b) : b \in ForeignFiles} \cup {NoFile} :
       /\ f # file
       /\ file' = f
       /\ last' = [NoCall EXCEPT !.op = "place"]
  /\ UNCHANGED <<cf, handles, colHandles, colIndex, readOnly, colHandleCache,
                 run, hist>>

\* the last bytes of a complete dump file are lost (a copy that was cut short)
TruncateFile ==
  /\ Alive
  /\ file.exists /\ WellFormedSnapshot(file.bytes) /\ FrameCount(file.bytes) >= 1
  /\ \E d \in {1, FrameSize - 1} :
       file' = FileOf(SubSeq(file.bytes, 1, Len(file.bytes) - d))
  /\ last' = [NoCall EXCEPT !.op = "place"]
  /\ UNCHANGED <<cf, handles, colHandles, colIndex, readOnly, colHandleCache,
                 run, hist>>

InitSnapshot == Init /\ "other" \notin DOMAIN cf

NextSnapshot ==
  \/ LoadCall \/ ProbeCall \/ ExportCall \/ ImportCall \/ ClearCall
  \/ PlaceFile \/ TruncateFile

SpecSnapshot == InitSnapshot /\ [][NextSnapshot]_vars

(* ------------------------ the batch specification ----------------------- *)
\* A bulk insert or remove taken one store call at a time: the batch.Put or
\* batch.Delete of each key, then db->Write. Any of these calls may return a
\* status that is not ok, which RDB_OK throws; finds run in between. One such
\* call is followed from each state the constructor can leave.
BatchInputs ==
  {[op |-> "insert", in |-> x] :
     x \in {y \in InsertInputs :
              /\ y.dtypesOk /\ y.numValues = Len(y.keys)
              /\ Len(y.keys) >= RDB_BATCH_MODE_MIN_QUERY_SIZE}}
  \cup {[op |-> "remove", in |-> x] :
          x \in {y \in RemoveInputs :
                   /\ y.dtypesOk
                   /\ Len(y.keys) >= RDB_BATCH_MODE_MIN_QUERY_SIZE}}

\* the call in progress returns (or throws): status and the calls it made
BatchEnd(status, calls) ==
  /\ run' = [run EXCEPT !.pc = "done", !.status = status, !.calls = calls]
  /\ last' = [op |-> run.op, in |-> run.in, status |-> status, out |-> <<>>,
              calls |-> calls]

\* the call up to its loop: GetOrCreateColumnHandle and the read-only test
BatchBegin ==
  /\ Alive
  /\ run.pc = "idle"
  /\ \E b \in BatchInputs :
       LET g == GetOrCreateColumnHandle(Table)
           status == IF ~g.ok THEN "Exception"
                     ELSE IF g.h = NULL \/ readOnly THEN "PermissionDenied"
                     ELSE "Running"
       IN /\ cf' = g.t.cf
          /\ handles' = g.t.handles
          /\ colHandles' = g.t.colHandles
          /\ run' = [pc |-> IF status = "Running" THEN "batch" ELSE "done",
                     op |-> b.op, in |-> b.in, colHandle |-> g.h, i |-> 0,
                     batch |-> <<>>, calls |-> g.calls, before |-> g.t.cf,
                     status |-> status]
          /\ last' = IF status = "Running" THEN last
                     ELSE [op |-> b.op, in |-> b.in, status |-> status,
                           out |-> <<>>, calls |-> g.calls]
  /\ UNCHANGED <<colIndex, readOnly, colHandleCache, file, hist>>

\* batch.Put / batch.Delete of the next key
BatchAdd ==
  /\ run.pc = "batch"
  /\ run.i < Len(run.in.keys)
  /\ \E ok \in BOOLEAN :
       LET acc == [store |-> cf, batch |-> run.batch, calls |-> run.calls]
           r == IF run.op = "insert"
                THEN InsertStep(Table, run.colHandle, run.in, ValueWidth,
                                "WriteBatch.Put", run.i, acc)
                ELSE RemoveStep(Table, run.colHandle, run.in,
                                "WriteBatch.Delete", run.i, acc)
       IN IF ok
          THEN /\ cf' = r.store
               /\ run' = [run EXCEPT !.i = @ + 1, !.batch = r.batch,
                                     !.calls = r.calls]
               /\ last' = last
          ELSE /\ cf' = cf
               /\ BatchEnd("Exception", r.calls)
  /\ UNCHANGED <<handles, colHandles, colIndex, readOnly, colHandleCache, file,
                 hist>>

\* db->Write(writeOptions, &batch)
BatchWrite ==
  /\ run.pc = "batch"
  /\ run.i = Len(run.in.keys)
  /\ \E ok \in BOOLEAN :
       LET calls == Append(run.calls, Call("Write", NULL, "", <<>>, 0))
       IN IF ok
          THEN cf' = Write(cf, run.batch) /\ BatchEnd("OK", calls)
          ELSE cf' = cf /\ BatchEnd("Exception", calls)
  /\ UNCHANGED <<handles, colHandles, colIndex, readOnly, colHandleCache, file,
                 hist>>

NextBatch == BatchBegin \/ BatchAdd \/ BatchWrite \/ ProbeCall

SpecBatch == Init /\ [][NextBatch]_vars

(* ------------------------ the import specification --------------------- *)
\* An import taken one step at a time: the call up to its loop, then for each
\* pass the reads with batch.Put, then the test of the batch size with
\* db->Write and batch.Clear. run.st is the loop's state, with the pending
\* WriteBatch in run.st.batch. One import is followed from each state the
\* constructor can leave, on each of the files below.

\* a complete dump file of n records: the keys are the 8-byte patterns of
\* 4096, 4104, ...
SnapshotOf(n) ==
  [e \in 1..(Len(Header) + n * FrameSize) |->
     IF e <= Len(Header) THEN Header[e]
     ELSE LET i == (e - Len(Header) - 1) \div FrameSize
              p == (e - Len(Header) - 1) % FrameSize
          IN Frame(assignSlicePointer(4096 + i * SizeofK),
                   assignSliceValues(Vec(i % 2)))[p + 1]]

\* the numbers of records of the files imported: none, one, a full batch, a
\* batch and more, two batches and more
ImportSizes ==
  {0, 1, RDB_BATCH_MODE_MAX_QUERY_SIZE, MaxLoad, 2 * MaxLoad}

\* the files imported: complete ones, and one that lost its last byte
ImportFiles ==
  {SnapshotOf(n) : n \in ImportSizes}
  \cup {SubSeq(SnapshotOf(MaxLoad), 1, Len(SnapshotOf(MaxLoad)) - 1)}

\* another program writes the file at RDB_EXPORT_PATH before the import
PlaceSnapshot ==
  /\ run.pc = "idle"
  /\ ~file.exists
  /\ \E b \in ImportFiles : file' = FileOf(b)
  /\ last' = [NoCall EXCEPT !.op = "place"]
  /\ UNCHANGED <<cf, handles, colHandles, colIndex, readOnly, colHandleCache,
                 run, hist>>

\* the import returns: what it wrote is in the store
ImportEnd(st) ==
  /\ cf' = st.store
  /\ run' = [pc |-> "done", st |-> st]
  /\ last' = [op |-> "import", in |-> <<>>, status |-> st.status, out |-> <<>>,
              calls |-> st.calls]

\* the call up to its loop
ImportBegin ==
  /\ run.pc = "idle"
  /\ LET hd == ImportHead(Table)
     IN /\ handles' = hd.ret.t.handles
        /\ colHandles' = hd.ret.t.colHandles
        /\ colIndex' = hd.ret.t.colIndex
        /\ colHandleCache' = hd.ret.t.colHandleCache
        /\ IF hd.loop
           THEN /\ cf' = hd.ret.t.cf
                /\ run' = [pc |-> "read", st |-> hd.st, name |-> hd.name,
                           colHandle |-> hd.colHandle]
                /\ last' = last
           ELSE /\ cf' = hd.ret.t.cf
                /\ run' = [pc |-> "done",
                           st |-> [hd.st EXCEPT !.status = hd.ret.status,
                                                !.calls = hd.ret.calls]]
                /\ last' = [op |-> "import", in |-> <<>>,
                            status |-> hd.ret.status, out |-> <<>>,
                            calls |-> hd.ret.calls]
  /\ UNCHANGED <<readOnly, file, hist>>

\* the loop test, then the reads of one record and batch.Put; once the loop
\* is left, the write of the remaining entries
ImportRead ==
  /\ run.pc = "read"
  /\ IF run.st.eof THEN ImportEnd(ImportRest(run.st))
     ELSE LET put == ImportPut(run.st, run.name, run.colHandle, file.bytes)
          IN IF put.done THEN ImportEnd(put)
             ELSE /\ run' = [run EXCEPT !.pc = "flush", !.st = put]
                  /\ UNCHANGED <<cf, last>>
  /\ UNCHANGED <<handles, colHandles, colIndex, readOnly, colHandleCache, file,
                 hist>>

\* the test of the batch size, with db->Write and batch.Clear
ImportFlush ==
  /\ run.pc = "flush"
  /\ LET st == ImportCommit(run.st)
     IN /\ run' = [run EXCEPT !.pc = "read", !.st = st]
        /\ cf' = st.store
  /\ UNCHANGED <<handles, colHandles, colIndex, readOnly, colHandleCache, file,
                 last, hist>>

NextImport == PlaceSnapshot \/ ImportBegin \/ ImportRead \/ ImportFlush

SpecImport == Init /\ [][NextImport]_vars

(* ------------------------- the codec specification --------------------- *)
\* copyToTensor and assignSlice applied to slices and tensors of every shape
\* up to the bounds; they use no field of the table, which stays as a
\* constructor left it. run holds the argument and, after the call, the result.
SliceBytes == {0, 1}

\* the slices the store can hand back
Slices == SeqsUpTo(SliceBytes, MaxSlice)

\* tensors of tstring elements
Texts == SeqsUpTo({0, 97}, 2)
TextTensors == SeqsUpTo(Texts, MaxTexts)

InitCodec ==
  /\ InitTable
  /\ readOnly /\ DOMAIN cf = {"default"}
  /\ hist = <<>>
  /\ run \in {[pc |-> "slice", slice |-> b, numValues |-> n] :
                b \in Slices, n \in 0..MaxTexts}
             \cup {[pc |-> "tensor", src |-> v] : v \in TextTensors}

\* copyToTensor<tstring>(dst, slice, numValues)
CopyText ==
  /\ run.pc = "slice"
  /\ run' = [pc |-> "text", slice |-> run.slice, numValues |-> run.numValues,
             r |-> copyToTensorText(run.slice, run.numValues)]
  /\ UNCHANGED <<cf, handles, colHandles, colIndex, readOnly, colHandleCache,
                 file, last, hist>>

\* copyToTensor<V>(dst, slice, numValues)
CopyFixed ==
  /\ run.pc = "slice"
  /\ run' = [pc |-> "fixed", slice |-> run.slice, numValues |-> run.numValues,
             r |-> copyToTensor(run.slice, run.numValues)]
  /\ UNCHANGED <<cf, handles, colHandles, colIndex, readOnly, colHandleCache,
                 file, last, hist>>

\* assignSlice<tstring>(dst, src, numValues), then copyToTensor<tstring> of
\* the slice it made
AssignText ==
  /\ run.pc = "tensor"
  /\ LET a == assignSliceTexts(run.src)
     IN run' = [pc |-> "back", src |-> run.src, a |-> a,
                r |-> IF a.ok THEN copyToTensorText(a.d, Len(run.src))
                      ELSE [ok |-> FALSE, v |-> <<>>]]
  /\ UNCHANGED <<cf, handles, colHandles, colIndex, readOnly, colHandleCache,
                 file, last, hist>>

NextCodec == CopyText \/ CopyFixed \/ AssignText

SpecCodec == InitCodec /\ [][NextCodec]_vars

(* ------------------------- the race specification ----------------------- *)
\* NumThreads callers run find, insert (of one key each) or clear on the same
\* table at the same time. The class holds no lock, so their steps interleave
\* at every read or write of colIndex and colHandles and at every store call.
\* run[th] is caller th's position (pc), its local colHandle (h), the store
\* calls it made, the store call that failed on it and what it returned.
Threads == 1..NumThreads

Idle == [pc |-> "idle", op |-> "none", h |-> NULL, calls |-> <<>>,
         failed |-> "", oob |-> FALSE, status |-> "", out |-> <<>>]

\* caller th's keys tensor: one key, in a buffer of its own
ThreadKey(th) == assignSlicePointer(4096 + (th - 1) * SizeofK)

\* a handle is live until DestroyColumnFamilyHandle
Live(h) == h \in DOMAIN handles

\* a caller that crashed the process ends every caller
NoCrash == \A th \in Threads : run[th].status # "Crash"

Go(th, r) == run' = [run EXCEPT ![th] = r]

Finish(th, r, status) ==
  /\ Go(th, [r EXCEPT !.pc = "done", !.status = status])
  /\ last' = [op |-> r.op, in |-> <<>>, status |-> status, out |-> r.out,
              calls |-> r.calls]

\* the op kernel's Compute starts
Start(th) ==
  /\ NoCrash
  /\ run[th].pc = "idle"
  /\ \E op \in {"find", "insert", "clear"} :
       Go(th, [Idle EXCEPT !.op = op,
                          !.pc = IF op = "clear" THEN "clear" ELSE "get"])
  /\ UNCHANGED <<cf, handles, colHandles, colIndex, readOnly, colHandleCache,
                 file, last, hist>>

\* GetOrCreateColumnHandle: if (colIndex >= colHandles.size())
GetCheck(th) ==
  /\ NoCrash
  /\ run[th].pc = "get"
  /\ IF colIndex >= Len(colHandles)
     THEN IF readOnly
          THEN Go(th, [run[th] EXCEPT !.pc = "use", !.h = NULL])
          ELSE Go(th, [run[th] EXCEPT !.pc = "create"])
     ELSE Go(th, [run[th] EXCEPT !.pc = "index"])
  /\ UNCHANGED <<cf, handles, colHandles, colIndex, readOnly, colHandleCache,
                 file, last, hist>>

\* RDB_OK(db->CreateColumnFamily(..., embeddingName, &colHandle))
GetCreate(th) ==
  /\ NoCrash
  /\ run[th].pc = "create"
  /\ LET call == Call("CreateColumnFamily", NULL, embeddingName, <<>>, 0)
         r == [run[th] EXCEPT !.calls = Append(@, call)]
     IN IF embeddingName \in DOMAIN cf
        THEN /\ Finish(th, [r EXCEPT !.failed = "CreateColumnFamily"], "Exception")
             /\ UNCHANGED <<cf, handles>>
        ELSE /\ cf' = (embeddingName :> EmptyData) @@ cf
             /\ handles' = (NewHandle(Table) :> embeddingName) @@ handles
             /\ Go(th, [r EXCEPT !.pc = "push", !.h = NewHandle(Table)])
             /\ last' = last
  /\ UNCHANGED <<colHandles, colIndex, readOnly, colHandleCache, file, hist>>

\* colHandles.push_back(colHandle)
GetPush(th) ==
  /\ NoCrash
  /\ run[th].pc = "push"
  /\ colHandles' = Append(colHandles, run[th].h)
  /\ Go(th, [run[th] EXCEPT !.pc = "index"])
  /\ UNCHANGED <<cf, handles, colIndex, readOnly, colHandleCache, file, last,
                 hist>>

\* return colHandles[colIndex]: past the end of the vector the read is
\* undefined: it traps, or yields whatever pointer lies there
GetIndex(th) ==
  /\ NoCrash
  /\ run[th].pc = "index"
  /\ IF colIndex < Len(colHandles)
     THEN Go(th, [run[th] EXCEPT !.pc = "use", !.h = colHandles[colIndex + 1]])
          /\ last' = last
     ELSE \/ Finish(th, [run[th] EXCEPT !.oob = TRUE], "Crash")
          \/ \E h \in 1..(Len(colHandles) + 1) :
               /\ Go(th, [run[th] EXCEPT !.pc = "use", !.h = h, !.oob = TRUE])
               /\ last' = last
  /\ UNCHANGED <<cf, handles, colHandles, colIndex, readOnly, colHandleCache,
                 file, hist>>

\* the store call of a find or an insert of one key (point path) with the
\* local colHandle; on a destroyed handle the call is undefined (it traps),
\* on a dropped family a Get finds nothing and a Put returns an error
Use(th) ==
  /\ NoCrash
  /\ run[th].pc = "use"
  /\ LET r0 == run[th]
         name == FamilyOf(Table, r0.h)
         api == IF r0.op = "find" THEN "Get" ELSE "Put"
         r == [r0 EXCEPT !.calls = Append(@, Call(api, r0.h, name, ThreadKey(th), 1))]
         got == IF name \in DOMAIN cf /\ ThreadKey(th) \in DOMAIN cf[name]
                THEN copyToTensor(cf[name][ThreadKey(th)], ValueWidth)
                ELSE [ok |-> TRUE, v |-> DefaultOf(ValueWidth)]
     IN IF r0.h = NULL
        THEN /\ IF r0.op = "find"
                THEN Finish(th, [r0 EXCEPT !.out = DefaultOf(ValueWidth)], "OK")
                ELSE Finish(th, r0, "PermissionDenied")
             /\ cf' = cf
        ELSE IF r0.op = "insert" /\ readOnly
        THEN Finish(th, r0, "PermissionDenied") /\ cf' = cf
        ELSE IF ~Live(r0.h)
        THEN Finish(th, r, "Crash") /\ cf' = cf
        ELSE IF r0.op = "find"
        THEN /\ IF got.ok THEN Finish(th, [r EXCEPT !.out = got.v], "OK")
                ELSE Finish(th, r, "Exception")
             /\ cf' = cf
        ELSE IF name \in DOMAIN cf
        THEN /\ cf' = DbPut(cf, name, ThreadKey(th), assignSliceValues(Vec(0)))
             /\ Finish(th, r, "OK")
        ELSE /\ cf' = cf
             /\ Finish(th, [r EXCEPT !.failed = "Put"], "Exception")
  /\ UNCHANGED <<handles, colHandles, colIndex, readOnly, colHandleCache, file,
                 hist>>

\* Clear: colHandleCache.clear(); if (colIndex < colHandles.size()); readOnly
ClearCheck(th) ==
  /\ NoCrash
  /\ run[th].pc = "clear"
  /\ colHandleCache' = <<>>
  /\ IF colIndex < Len(colHandles)
     THEN IF readOnly
          THEN Finish(th, run[th], "PermissionDenied")
          ELSE Go(th, [run[th] EXCEPT !.pc = "drop"]) /\ last' = last
     ELSE Finish(th, run[th], "OK")
  /\ UNCHANGED <<cf, handles, colHandles, colIndex, readOnly, file, hist>>

\* RDB_OK(db->DropColumnFamily(colHandles[colIndex]))
ClearDrop(th) ==
  /\ NoCrash
  /\ run[th].pc = "drop"
  /\ LET inRange == colIndex < Len(colHandles)
         h == IF inRange THEN colHandles[colIndex + 1] ELSE NULL
         name == FamilyOf(Table, h)
         r == [run[th] EXCEPT
                 !.calls = Append(@, Call("DropColumnFamily", h, name, <<>>, 0)),
                 !.oob = ~inRange]
     IN IF ~inRange \/ ~Live(h)
        THEN Finish(th, r, "Crash") /\ cf' = cf
        ELSE IF name \notin DOMAIN cf
        THEN Finish(th, [r EXCEPT !.failed = "DropColumnFamily"], "Exception")
             /\ cf' = cf
        ELSE /\ cf' = Restrict(cf, DOMAIN cf \ {name})
             /\ Go(th, [r EXCEPT !.pc = "destroy"])
             /\ last' = last
  /\ UNCHANGED <<handles, colHandles, colIndex, readOnly, colHandleCache, file,
                 hist>>

\* RDB_OK(db->DestroyColumnFamilyHandle(colHandles[colIndex]))
ClearDestroy(th) ==
  /\ NoCrash
  /\ run[th].pc = "destroy"
  /\ LET inRange == colIndex < Len(colHandles)
         h == IF inRange THEN colHandles[colIndex + 1] ELSE NULL
         r == [run[th] EXCEPT
                 !.calls = Append(@, Call("DestroyColumnFamilyHandle", h,
                                          FamilyOf(Table, h), <<>>, 0)),
                 !.oob = ~inRange]
     IN IF ~inRange \/ ~Live(h)
        THEN Finish(th, r, "Crash") /\ handles' = handles
        ELSE /\ handles' = Restrict(handles, DOMAIN handles \ {h})
             /\ Go(th, [r EXCEPT !.pc = "erase"])
             /\ last' = last
  /\ UNCHANGED <<cf, colHandles, colIndex, readOnly, colHandleCache, file, hist>>

\* colHandles.erase(colHandles.begin() + colIndex); colIndex = colHandles.size()
ClearErase(th) ==
  /\ NoCrash
  /\ run[th].pc = "erase"
  /\ IF colIndex < Len(colHandles)
     THEN LET erased == [i \in 1..(Len(colHandles) - 1) |->
                           IF i <= colIndex THEN colHandles[i]
                           ELSE colHandles[i + 1]]
          IN /\ colHandles' = erased
             /\ colIndex' = Len(erased)
             /\ Finish(th, run[th], "OK")
     ELSE /\ UNCHANGED <<colHandles, colIndex>>
          /\ Finish(th, [run[th] EXCEPT !.oob = TRUE], "Crash")
  /\ UNCHANGED <<cf, handles, readOnly, colHandleCache, file, hist>>

InitRace == InitTable /\ run = [th \in Threads |-> Idle] /\ hist = <<>>

NextRace ==
  \E th \in Threads :
    \/ Start(th) \/ GetCheck(th) \/ GetCreate(th) \/ GetPush(th)
    \/ GetIndex(th) \/ Use(th)
    \/ ClearCheck(th) \/ ClearDrop(th) \/ ClearDestroy(th) \/ ClearErase(th)

SpecRace == InitRace /\ [][NextRace]_vars

(* ---------------------- the lifetime specification ---------------------- *)
\* The table from its constructor to its destructor, with every
\* ColumnFamilyHandle it opens (DB::Open, CreateColumnFamily) and destroys
\* (DestroyColumnFamilyHandle) entered in hist. A handle object's address can
\* be given to a later handle once the object is destroyed.
Opened(h, at) == [ev |-> "open", h |-> h, at |-> at]
Released(h, at) == [ev |-> "release", h |-> h, at |-> at]

\* the handles a call destroyed, in order
Destroyed(calls) ==
  LET idx == {i \in DOMAIN calls : calls[i].api = "DestroyColumnFamilyHandle"}
      pos == SortedKeys({<<i>> : i \in idx})
  IN [n \in 1..Len(pos) |-> calls[pos[n][1]].h]

\* the handle events of the call op that returned r: the handle Clear
\* destroyed, then the one GetOrCreateColumnHandle pushed onto colHandles
HandleEvents(op, r) ==
  LET gone == Destroyed(r.calls)
      made == Len(r.t.colHandles) = Len(colHandles) - Len(gone) + 1
  IN [n \in 1..Len(gone) |-> Released(gone[n], op)]
     \o (IF made THEN <<Opened(r.t.colHandles[Len(r.t.colHandles)], op)>>
         ELSE <<>>)

\* the state a call leaves, the record of the call and its handle events
Logged(op, in, r) ==
  /\ Len(hist) + Len(HandleEvents(op, r)) <= MaxEvents
  /\ cf' = r.t.cf
  /\ handles' = r.t.handles
  /\ colHandles' = r.t.colHandles
  /\ colIndex' = r.t.colIndex
  /\ readOnly' = r.t.readOnly
  /\ colHandleCache' = r.t.colHandleCache
  /\ file' = r.t.file
  /\ last' = [op |-> op, in |-> in, status |-> r.status, out |-> r.out,
              calls |-> r.calls]
  /\ hist' = hist \o HandleEvents(op, r)
  /\ UNCHANGED run

\* the table is constructed and not torn down, and no call crashed
InUse == run.pc = "idle" /\ Alive

\* the calls followed here pass one key, with the dtypes the table has
LifeInputs(S) ==
  {in \in S : in.dtypesOk /\ in.keys = <<1>> /\ in.addr = 4096}

LifeFind ==
  /\ InUse
  /\ \E in \in LifeInputs(FindInputs) : \E ub \in FindUBFor(in) :
       /\ in.numValues = 1 /\ Len(in.dflt) = ValueWidth
       /\ Logged("find", in, Find(Table, in, ub))

LifeInsert ==
  /\ InUse
  /\ \E in \in LifeInputs(InsertInputs) : \E ub \in InsertUBFor(in) :
       /\ in.numValues = 1
       /\ Logged("insert", in, Insert(Table, in, ub))

LifeRemove ==
  /\ InUse
  /\ \E in \in LifeInputs(RemoveInputs) : Logged("remove", in, Remove(Table, in))

LifeClear == InUse /\ Logged("clear", <<>>, Clear(Table))

LifeExport ==
  /\ InUse
  /\ \E ub \in ExportUB :
       Logged("export", [canOpen |-> TRUE], ExportValues(Table, TRUE, ub))

LifeImport == InUse /\ Logged("import", <<>>, ImportValues(Table))

\* a destructor that closes the store and destroys no handle
TeardownLeaks ==
  /\ InUse
  /\ colHandles' = <<>>
  /\ run' = [pc |-> "down"]
  /\ last' = [NoCall EXCEPT !.op = "teardown"]
  /\ UNCHANGED <<cf, handles, colIndex, readOnly, colHandleCache, file, hist>>

\* ~RocksDBTableOfTensors(): every handle in colHandles is destroyed, then
\* the vector is emptied and the store closed
Teardown ==
  /\ InUse
  /\ hist' = hist \o [n \in 1..Len(colHandles) |->
                        Released(colHandles[n], "teardown")]
  /\ handles' = Restrict(handles, DOMAIN handles \ Range(colHandles))
  /\ colHandles' = <<>>
  /\ run' = [pc |-> "down"]
  /\ last' = [NoCall EXCEPT
                !.op = "teardown",
                !.calls = [n \in 1..Len(colHandles) |->
                             Call("DestroyColumnFamilyHandle", colHandles[n],
                                  FamilyOf(Table, colHandles[n]), <<>>, 0)]]
  /\ UNCHANGED <<cf, colIndex, readOnly, colHandleCache, file>>

\* the constructor: DB::Open / DB::OpenForReadOnly hands back one handle for
\* each listed family
InitLifetime ==
  /\ InitTable
  /\ run = NoRun
  /\ hist = [n \in 1..Len(colHandles) |-> Opened(colHandles[n], "ctor")]

NextLifetime ==
  \/ LifeFind \/ LifeInsert \/ LifeRemove \/ LifeClear \/ LifeExport
  \/ LifeImport \/ Teardown

SpecLifetime == InitLifetime /\ [][NextLifetime]_vars

(* ------------------------- vocabulary of the claims --------------------- *)
\* the table's namespace exists in the store
Present == embeddingName \in DOMAIN cf

\* the records of the table's namespace
Records == IF Present THEN cf[embeddingName] ELSE EmptyData

\* the calls that read, write or delete records, or open or drop a namespace
RecordApis ==
  {"Get", "MultiGet", "Put", "WriteBatch.Put", "Delete", "WriteBatch.Delete"}
NamespaceApis ==
  RecordApis \cup {"NewIterator", "DropColumnFamily", "CreateColumnFamily"}

\* the calls of the last operation that carry a key element of its batch
KeyCalls ==
  {i \in DOMAIN last.calls :
     last.calls[i].api \in RecordApis /\ last.op \in {"find", "insert", "remove"}}

\* row i (1-based) of a flat tensor of rows of ValueWidth elements
Row(v, i) == SubSeq(v, (i - 1) * ValueWidth + 1, i * ValueWidth)

\* the slot of key i (1-based) that default tiling prescribes
TiledRow(d, i) ==
  [j \in 1..ValueWidth |-> d[(((i - 1) * ValueWidth + (j - 1)) % Len(d)) + 1]]

\* a find of the key values ks held in a buffer at address a
FindOf(ks, a, d, ub) ==
  Find(Table, [dtypesOk |-> TRUE, keys |-> ks, addr |-> a,
               numValues |-> Len(ks), dflt |-> d], ub)

\* the last call passed the argument checks of its operation
ValidCall ==
  /\ last.op \in {"find", "insert", "remove"} => last.in.dtypesOk
  /\ last.op \in {"find", "insert"} => last.in.numValues = Len(last.in.keys)
  /\ last.op = "find" => Len(last.in.dflt) % ValueWidth = 0

\* the row inserted last for the key at position i of the last insert
InsertedRow(i) ==
  LET ks == last.in.keys
      j == CHOOSE m \in i..Len(ks) :
             ks[m] = ks[i] /\ \A n \in (m + 1)..Len(ks) : ks[n] # ks[i]
  IN Row(last.in.values, j)

(* -------------------------------- claims -------------------------------- *)
\* C1: after a successful insert, a find of the same key values from any
\* caller buffer returns, for every key, the value vector inserted for it.
C1_InsertFindRoundTrip ==
  (last.op = "insert" /\ last.status = "OK" /\ Len(last.in.keys) >= 1) =>
    \A a \in BufAddrs : \A ub \in FindUB :
      LET r == FindOf(last.in.keys, a, DefaultOf(ValueWidth), ub)
      IN /\ r.status = "OK"
         /\ \A i \in 1..Len(last.in.keys) : Row(r.out, i) = InsertedRow(i)

\* C2: every store key that a successful find, insert or remove uses for a
\* key element is the raw bit pattern of the element's value.
C2_StoreKeyIsValueBytes ==
  last.status = "OK" => \A i \in KeyCalls :
    last.calls[i].key = assignSliceValue(last.in.keys[last.calls[i].elem])

\* C3: a find that passes validation (with a non-empty default) returns no
\* error for a key absent from the namespace and fills its slot by tiling.
C3_DefaultTiling ==
  (last.op = "find" /\ ValidCall /\ Len(last.in.dflt) > 0) =>
    \A i \in 1..Len(last.in.keys) :
      assignSliceValue(last.in.keys[i]) \notin DOMAIN Records =>
        /\ last.status = "OK"
        /\ Row(last.out, i) = TiledRow(last.in.dflt, i)

\* C4: one key takes the point path, two or more take the bulk path, and
\* find returns the same value for a key alone as for the key in a batch.
C4_PointBulkAgree ==
  /\ \A i \in KeyCalls :
       last.calls[i].api \in
         (IF Len(last.in.keys) < 2 THEN {"Get", "Put", "Delete"}
          ELSE {"MultiGet", "WriteBatch.Put", "WriteBatch.Delete"})
  /\ \A k1 \in KeyVals, k2 \in KeyVals, a \in BufAddrs, ub \in FindUB :
       LET single == FindOf(<<k1>>, a, DefaultOf(ValueWidth), ub)
           pair == FindOf(<<k1, k2>>, a, DefaultOf(ValueWidth), ub)
       IN (single.status = "OK" /\ pair.status = "OK") =>
            Row(pair.out, 1) = single.out

\* C5: every record a successful call of the table reads, writes or deletes,
\* and every namespace it opens or drops, is of the table's own namespace.
C5_NamespaceIsolation ==
  last.status = "OK" => \A i \in DOMAIN last.calls :
    last.calls[i].api \in NamespaceApis => last.calls[i].cf = embeddingName

\* C8: once an insert and then a remove of the same keys have succeeded, a
\* find of those keys returns the default values for every one of them.
C8_InsertRemoveFindDefault ==
  [][(/\ last.op = "insert" /\ last.status = "OK"
      /\ last'.op = "remove" /\ last'.status = "OK"
      /\ last'.in.keys = last.in.keys
      /\ Len(last.in.keys) >= 1) =>
       (\A a \in BufAddrs : \A ub \in FindUB :
          LET d == DefaultOf(ValueWidth)
              r == FindOf(last.in.keys, a, d, ub)
          IN /\ r.status = "OK"
             /\ \A i \in 1..Len(last.in.keys) : Row(r.out, i) = TiledRow(d, i))']_vars

\* C9: on a read-only table insert, remove, clear and import each return
\* PermissionDenied.
C9_ReadOnlyRejectsMutation ==
  (readOnly /\ last.op \in {"insert", "remove", "clear", "import"} /\ ValidCall)
    => last.status = "PermissionDenied"

\* C6: on a read-write table, an export that succeeded followed by an import
\* of the file it produced: the import succeeds and the namespace holds exactly
\* the record set it held before.
C6_ExportImportRoundTrip ==
  [][(/\ ~readOnly
      /\ last.op = "export" /\ last.status = "OK"
      /\ last'.op = "import") =>
       (last'.status = "OK" /\ Records' = Records)]_vars

\* C7: on a read-write table, import of a well-formed snapshot of n >= 0
\* records returns success and leaves all n records in the namespace.
C7_ImportCommitsAll ==
  (/\ ~readOnly /\ last.op = "import"
   /\ file.exists /\ WellFormedSnapshot(file.bytes)) =>
    /\ last.status = "OK"
    /\ \A i \in 0..(FrameCount(file.bytes) - 1) :
         /\ FrameKey(file.bytes, i) \in DOMAIN Records
         /\ Records[FrameKey(file.bytes, i)] = FrameValue(file.bytes, i)

\* C10: on a read-only table a valid find and an export whose file can be
\* opened succeed, and no store call of theirs is made with a missing
\* namespace handle.
C10_ReadOnlyCanRead ==
  (/\ readOnly /\ ValidCall
   /\ \/ last.op = "find"
      \/ last.op = "export" /\ last.in.canOpen) =>
    /\ last.status = "OK"
    /\ \A i \in DOMAIN last.calls :
         last.calls[i].api \in RecordApis \cup {"NewIterator"} =>
           last.calls[i].h # NULL

\* C11: on a read-write table every clear, also one that follows a clear,
\* returns OK and leaves the namespace absent, and a find of any keys (alone
\* or in a batch, from any buffer) then returns the default for every key.
C11_ClearIdempotent ==
  (~readOnly /\ last.op = "clear") =>
    /\ last.status = "OK"
    /\ ~Present
    /\ \A ks \in SeqsUpTo(KeyVals, MaxKeys) \ {<<>>} :
       \A a \in BufAddrs : \A ub \in FindUB :
         LET d == DefaultOf(ValueWidth)
             r == FindOf(ks, a, d, ub)
         IN /\ r.status = "OK"
            /\ \A i \in 1..Len(ks) : Row(r.out, i) = TiledRow(d, i)

\* C12: find and export leave the namespace's existence unchanged; the
\* namespace goes from absent to present only in an insert or an import.
C12_ReadPathsNeverCreate ==
  [][/\ last'.op \in {"find", "export"} => (Present' <=> Present)
     /\ (~Present /\ Present') => last'.op \in {"insert", "import"}]_vars

\* C13: on a read-write table whose namespace is absent a valid remove returns
\* OK, issues no delete to the store and leaves the namespace absent.
C13_RemoveAbsentNoOp ==
  [][(~readOnly /\ ~Present /\ last'.op = "remove" /\ last'.in.dtypesOk) =>
       /\ last'.status = "OK"
       /\ \A i \in DOMAIN last'.calls :
            last'.calls[i].api \notin {"Delete", "WriteBatch.Delete", "Write"}
       /\ ~Present']_vars

\* the store key of key i (1-based) of the call in progress
RunKey(i) == assignSlicePointer(run.in.addr + (i - 1) * SizeofK)

\* the namespace's records when the call in progress started its batch, and
\* those records with every mutation of the call applied
RunBefore == run.before[embeddingName]
RunAllApplied ==
  LET N == Len(run.in.keys)
      keys == {RunKey(i) : i \in 1..N}
  IN IF run.op = "insert"
     THEN [k \in DOMAIN RunBefore \cup keys |->
             IF k \in keys
             THEN assignSliceValues(
                    Row(run.in.values,
                        CHOOSE i \in 1..N :
                          RunKey(i) = k /\ \A j \in (i + 1)..N : RunKey(j) # k))
             ELSE RunBefore[k]]
     ELSE Restrict(RunBefore, DOMAIN RunBefore \ keys)

\* C14: at every point of a bulk insert or remove of N >= 2 keys, and after
\* it has returned or failed, the namespace holds either the records it held
\* when the call started or those with all N mutations applied; a call that
\* returned OK made exactly one batch commit and all N mutations are applied.
C14_BulkWriteAtomic ==
  (run.pc \in {"batch", "done"} /\ run.status # "PermissionDenied") =>
    /\ Records \in {RunBefore, RunAllApplied}
    /\ run.pc = "batch" => Records = RunBefore
    /\ (run.pc = "done" /\ run.status = "OK") =>
         /\ Records = RunAllApplied
         /\ Cardinality({i \in DOMAIN run.calls : run.calls[i].api = "Write"}) = 1
    /\ (run.pc = "done" /\ run.status # "OK") => Records = RunBefore

\* a bulk call that failed after at least one batch.Put or batch.Delete whose
\* mutations would have changed the namespace
C14_Witness ==
  /\ run.pc = "done" /\ run.status = "Exception" /\ run.i >= 1
  /\ RunAllApplied # RunBefore

\* the entries of the table's handle list that are handles of its namespace
OwnHandles ==
  {i \in DOMAIN colHandles :
     Live(colHandles[i]) /\ handles[colHandles[i]] = embeddingName}

\* C15: when callers start finds and inserts at the same time on a read-write
\* table (no clear among them), no caller fails in the creation of the
\* namespace, the namespace is created at most once, the table holds at most
\* one handle for it, and once all have returned every insert's record is there.
C15_ConcurrentCreateSafe ==
  (~readOnly /\ \A th \in Threads : run[th].op # "clear") =>
    /\ \A th \in Threads : run[th].failed # "CreateColumnFamily"
    /\ Cardinality({th \in Threads : run[th].pc \in {"push", "index", "use", "done"}
                      /\ \E i \in DOMAIN run[th].calls :
                           run[th].calls[i].api = "CreateColumnFamily"
                      /\ run[th].failed = ""}) <= 1
    /\ Cardinality(OwnHandles) <= 1
    /\ (\A th \in Threads : run[th].pc = "done") =>
         \A th \in Threads :
           run[th].op = "insert" => ThreadKey(th) \in DOMAIN Records

\* C16: with a clear running beside finds and inserts, no caller makes a store
\* call with a handle that has been destroyed (or is no handle at all), no
\* caller indexes the handle list out of range, and a find that returns yields
\* the stored value or the default.
C16_ClearRaceSafe ==
  \A th \in {t \in Threads : run[t].op \in {"find", "insert"}} :
    /\ ~run[th].oob
    /\ \A i \in DOMAIN run[th].calls :
         run[th].calls[i].api # "CreateColumnFamily" => run[th].calls[i].cf # "?"
    /\ (run[th].op = "find" /\ run[th].status = "OK") =>
         run[th].out \in {DefaultOf(ValueWidth), Vec(0)}

\* f holds a whole header whose magic or version is not the one ExportValues
\* writes
BadHeader(f) ==
  /\ f.exists
  /\ Len(f.bytes) >= 2 * SizeofU32
  /\ \/ SubSeq(f.bytes, 1, SizeofU32) # RDB_EXPORT_FILE_MAGIC
     \/ SubSeq(f.bytes, SizeofU32 + 1, 2 * SizeofU32)
          # LE(RDB_EXPORT_FILE_VERSION, SizeofU32)

\* the store calls of the last operation that are made through api
CallsOf(api) == {i \in DOMAIN last.calls : last.calls[i].api = api}

TruncatedSnapshot(b) ==
  /\ Len(b) > Len(Header)
  /\ (Len(b) - Len(Header)) % FrameSize # 0
  /\ WellFormedSnapshot(SubSeq(b, 1, Len(Header) + FrameCount(b) * FrameSize))

\* the number of records of b in the batches an import of b has written when
\* it reaches the end of b's whole frames
Committed(b) ==
  RDB_BATCH_MODE_MAX_QUERY_SIZE * (FrameCount(b) \div RDB_BATCH_MODE_MAX_QUERY_SIZE)

\* C19: on a read-write table the import of a file that is cut short inside
\* the record after k whole records stops with the end-of-file error
\* (OUT_OF_RANGE, "Unexpected end of file."), and the namespace then holds
\* exactly the first 128 * (k \div 128) records of the file: the batches
\* already written, and none of the records read after the last write.
C19_FailedImportKeepsCommitted ==
  (~readOnly /\ last.op = "import" /\ file.exists
   /\ TruncatedSnapshot(file.bytes)) =>
    /\ last.status = "OutOfRange"
    /\ DOMAIN Records =
         {FrameKey(file.bytes, i) : i \in 0..(Committed(file.bytes) - 1)}
    /\ \A i \in 0..(Committed(file.bytes) - 1) :
         Records[FrameKey(file.bytes, i)] = FrameValue(file.bytes, i)

\* an import has failed inside the record after a full batch and more: one
\* batch is in the namespace
C19_Witness ==
  /\ ~readOnly /\ last.op = "import" /\ file.exists
  /\ TruncatedSnapshot(file.bytes)
  /\ last.status = "OutOfRange"
  /\ FrameCount(file.bytes) >= RDB_BATCH_MODE_MAX_QUERY_SIZE
  /\ Cardinality(DOMAIN Records) = RDB_BATCH_MODE_MAX_QUERY_SIZE
  /\ CallsOf("Write") # {}

\* C20: on a read-write table the clear is the first step of an import
\* whatever the file is: when the namespace was there the first store call of
\* the import drops it, and after every import, also one that ends in NotFound,
\* in the unsupported-format error or in the end-of-file error, a record that
\* was in the namespace before the call is there only if the import put it.
C20_ImportClearsFirst ==
  [][(~readOnly /\ last'.op = "import") =>
       /\ Present =>
            /\ last'.calls # <<>>
            /\ last'.calls[1].api = "DropColumnFamily"
            /\ last'.calls[1].cf = embeddingName
       /\ \A k \in DOMAIN Records \cap DOMAIN Records' :
            \E i \in DOMAIN last'.calls :
              /\ last'.calls[i].api = "WriteBatch.Put"
              /\ last'.calls[i].key = k]_vars

\* an import that found no file has dropped the namespace and left it absent
C20_Witness ==
  /\ ~readOnly /\ last.op = "import" /\ last.status = "NotFound"
  /\ CallsOf("DropColumnFamily") # {}
  /\ ~Present

\* the releases of the handle opened by event i of hist: the release events
\* of its address before that address is given to a later handle
ReleasesOf(i) ==
  {j \in DOMAIN hist :
     /\ j > i /\ hist[j].ev = "release" /\ hist[j].h = hist[i].h
     /\ \A m \in (i + 1)..(j - 1) :
          ~(hist[m].ev = "open" /\ hist[m].h = hist[i].h)}

\* once the table is torn down every handle it opened has one release
ReleasedOnce ==
  run.pc = "down" =>
    \A i \in DOMAIN hist :
      hist[i].ev = "open" => Cardinality(ReleasesOf(i)) = 1

\* C18 as the code has it: no handle is released twice; a handle is released
\* either by the clear that drops its family (Clear itself, or the clear that
\* starts an import) or at the teardown; and once the table is torn down
\* every handle it ever opened has been released exactly once.
C18_ReleasedOnceByTeardown ==
  /\ \A i \in DOMAIN hist :
       hist[i].ev = "open" => Cardinality(ReleasesOf(i)) <= 1
  /\ \A j \in DOMAIN hist :
       hist[j].ev = "release" => hist[j].at \in {"clear", "import", "teardown"}
  /\ run.pc = "idle" =>
       Range(colHandles) =
         {hist[i].h : i \in {m \in DOMAIN hist :
                               hist[m].ev = "open" /\ ReleasesOf(m) = {}}}
  /\ ReleasedOnce

\* a table is torn down after a clear released a handle and a later call
\* opened another, which the teardown released
C18_Witness ==
  /\ run.pc = "down"
  /\ \E i, j, k \in DOMAIN hist :
       /\ i < j /\ j < k
       /\ hist[i].ev = "release" /\ hist[i].at = "clear"
       /\ hist[j].ev = "open" /\ hist[j].at \in {"find", "insert", "remove", "export"}
       /\ hist[k].ev = "release" /\ hist[k].at = "teardown"
       /\ hist[k].h = hist[j].h

\* C18: whatever calls the table served (lazy creations and clears among
\* them), no handle is released before the teardown, and once the table is
\* torn down every handle it ever opened has been released exactly once.
C18_ReleasedOnceAtTeardown ==
  /\ \A j \in DOMAIN hist : hist[j].ev = "release" => hist[j].at = "teardown"
  /\ ReleasedOnce

\* the value length field of frame i (0-based) of b
FrameValueSize(b, i) ==
  FromLE(SubSeq(b, Len(Header) + i * FrameSize + 2 + SizeofK,
                Len(Header) + i * FrameSize + 1 + SizeofK + SizeofU32))

\* C21: the file of an export that succeeded is the header followed by one
\* frame for each record of the namespace and nothing else; the frames are in
\* strictly ascending order of the raw key bytes, and each holds the key's
\* byte count, the key, the value's byte count and the value. The file is
\* thus a function of the record set, whatever the order of the inserts.
C21_ExportDeterminedByRecords ==
  (last.op = "export" /\ last.status = "OK") =>
    LET b == file.bytes
        n == Cardinality(DOMAIN Records)
    IN /\ file.exists
       /\ Len(b) = Len(Header) + n * FrameSize
       /\ SubSeq(b, 1, Len(Header)) = Header
       /\ \A i \in 0..(n - 1) :
            /\ FrameKey(b, i) \in DOMAIN Records
            /\ b[Len(Header) + i * FrameSize + 1] = Len(FrameKey(b, i))
            /\ FrameValueSize(b, i) = Len(Records[FrameKey(b, i)])
            /\ FrameValue(b, i) = Records[FrameKey(b, i)]
       /\ \A i \in 0..(n - 2) : BytesLess(FrameKey(b, i), FrameKey(b, i + 1))

\* an export of more than a batch of records has succeeded, and two
\* neighbouring frames are in byte order though not in the order of the key
\* numbers
C21_Witness ==
  /\ last.op = "export" /\ last.status = "OK" /\ file.exists
  /\ Cardinality(DOMAIN Records) > RDB_BATCH_MODE_MAX_QUERY_SIZE
  /\ \E i \in 0..(FrameCount(file.bytes) - 2) :
       FromLE(FrameKey(file.bytes, i)) > FromLE(FrameKey(file.bytes, i + 1))

\* C22: at every point of an import the write batch holds at most 128
\* records that are not yet written, and right after each write of the batch
\* it holds none.
C22_PendingBatchBounded ==
  [][/\ run'.pc \in {"read", "flush"} =>
          Len(run'.st.batch) <= RDB_BATCH_MODE_MAX_QUERY_SIZE
     /\ (/\ run.pc \in {"read", "flush"} /\ run'.pc \in {"read", "flush"}
         /\ Len(run'.st.calls) > Len(run.st.calls)
         /\ run'.st.calls[Len(run'.st.calls)].api = "Write") =>
          Len(run'.st.batch) = 0]_vars

\* an import has written its second full batch and goes on reading
C22_Witness ==
  /\ run.pc = "read"
  /\ Len(run.st.batch) = 0
  /\ Cardinality({i \in DOMAIN run.st.calls : run.st.calls[i].api = "Write"}) = 2
  /\ run.st.n = 2 * RDB_BATCH_MODE_MAX_QUERY_SIZE

\* slice is exactly n segments, each a uint32 length and that many bytes:
\* some lengths lens add up, with their prefixes, to the slice's size and
\* every prefix holds its length
TextSegments(slice, n) ==
  {lens \in [1..n -> 0..Len(slice)] :
     LET RECURSIVE Sum(_)
         Sum(i) == IF i = 0 THEN 0 ELSE Sum(i - 1) + SizeofU32 + lens[i]
     IN /\ Sum(n) = Len(slice)
        /\ \A i \in 1..n :
             SubSeq(slice, Sum(i - 1) + 1, Sum(i - 1) + SizeofU32)
               = LE(lens[i], SizeofU32)}

\* C23: a tensor of text elements encoded and decoded with its element count
\* comes back unchanged; the text decoder accepts a slice exactly when it is
\* N well-formed (uint32 length, bytes) segments and then returns the
\* segments' bodies, and throws when the slice ends inside a length or a
\* body or goes on after the N-th segment; the fixed-width decoder throws
\* whenever the slice's size is not N times the element size.
C23_TextCodecRoundTrip ==
  /\ run.pc = "back" => (run.a.ok /\ run.r.ok /\ run.r.v = run.src)
  /\ run.pc = "text" =>
       /\ run.r.ok <=> TextSegments(run.slice, run.numValues) # {}
       /\ run.r.ok =>
            /\ Len(run.r.v) = run.numValues
            /\ assignSliceTexts(run.r.v).d = run.slice
  /\ run.pc = "fixed" =>
       (Len(run.slice) # run.numValues * SizeofV => ~run.r.ok)

\* a slice of two well-formed segments followed by one more byte was
\* decoded as two elements, and rejected
C23_Witness ==
  /\ run.pc = "text" /\ run.numValues = 2 /\ ~run.r.ok
  /\ TextSegments(SubSeq(run.slice, 1, Len(run.slice) - 1), 2) # {}

\* C24: while the table is in use (after the constructor and after every
\* find, insert, remove, clear, export and import made one at a time)
\* colIndex is at most the size of colHandles; the table's namespace exists
\* in the store exactly when colIndex is less than that size; and then the
\* handle at colIndex is a live handle of the namespace the table names.
C24_Bookkeeping ==
  run.pc = "idle" =>
    /\ colIndex <= Len(colHandles)
    /\ Present <=> colIndex < Len(colHandles)
    /\ colIndex < Len(colHandles) =>
         /\ colHandles[colIndex + 1] \in DOMAIN handles
         /\ handles[colHandles[colIndex + 1]] = embeddingName

\* the store listed the table's namespace before another one; the namespace
\* was dropped and created again, and its handle now comes after the other's
C24_Witness ==
  /\ run.pc = "idle"
  /\ "other" \in DOMAIN cf /\ Present
  /\ colIndex = 2 /\ colHandles = <<1, 3, 2>>
  /\ \E i \in DOMAIN hist : hist[i].ev = "open" /\ hist[i].at # "ctor"

\* C25: a find or an insert that returns InvalidArgument leaves the store as
\* it was: the namespace exists after the call exactly if it did before, its
\* records are the same, and the call created no namespace and put no record.
C25_RejectedCallsChangeNothing ==
  [][(last'.op \in {"find", "insert"} /\ last'.status = "InvalidArgument") =>
       /\ Present' <=> Present
       /\ cf' = cf
       /\ \A i \in DOMAIN last'.calls :
            last'.calls[i].api \notin
              {"CreateColumnFamily", "Put", "WriteBatch.Put", "Write"}]_vars

\* what the reads of a valid find of at least one key return, key by key
\* (none when the call ends before its result loop)
FindReads(t0, in, ub) ==
  LET g == GetOrCreateColumnHandle(t0)
      numKeys == Len(in.keys)
      miss == [found |-> FALSE, value |-> <<>>]
      mg == MultiGet(g.t, [i \in 1..numKeys |-> assignSliceValue(in.keys[i])], ub)
  IN IF ~g.ok THEN <<>>
     ELSE IF numKeys < RDB_BATCH_MODE_MIN_QUERY_SIZE
     THEN [i \in 1..numKeys |->
             IF g.h = NULL THEN miss
             ELSE DbGet(g.t, FamilyOf(g.t, g.h),
                        assignSlicePointer(in.addr + (i - 1) * SizeofK))]
     ELSE IF g.h # NULL
     THEN IF \E i \in 1..numKeys : ~mg[i].valid THEN <<>>
          ELSE [i \in 1..numKeys |-> mg[i].r]
     ELSE IF ub.hardened THEN <<>>
     ELSE [i \in 1..numKeys |-> miss]

\* the result loop gets to key i (1-based): no earlier hit made copyToTensor
\* throw
SlotReached(rs, i) ==
  \A k \in 1..(i - 1) : rs[k].found => copyToTensor(rs[k].value, ValueWidth).ok

\* C26: in every find of at least one key that passes the argument checks
\* (a default of length 0 among them), filling the slot of a key that was not
\* found never takes a remainder by a zero default length, and every element
\* of default_value it reads has an index from 0 to the length less one.
C26_DefaultReadsInBounds ==
  [][(last'.op = "find" /\ ValidCall' /\ Len(last'.in.keys) >= 1) =>
       \A ub \in FindUBFor(last'.in) :
         LET rs == FindReads(Table, last'.in, ub)
             dSize == Len(last'.in.dflt)
         IN \A i \in DOMAIN rs :
              (SlotReached(rs, i) /\ ~rs[i].found) =>
                /\ dSize # 0
                /\ \A j \in 0..(ValueWidth - 1) :
                     Rem((i - 1) * ValueWidth, dSize) + j < dSize]_vars

\* the last call computed values.NumElements() / numValues: a find whose
\* dtypes and counts matched, or such an insert on a read-write table
DividedByRowCount ==
  /\ last.op \in {"find", "insert"}
  /\ last.in.dtypesOk /\ last.in.numValues = Len(last.in.keys)
  /\ last.op = "insert" => ~readOnly

\* C27: a find, and on a read-write table an insert or a remove, called with
\* zero keys (and zero value rows) returns OK, divides by no zero row count,
\* makes no store call that reads, writes or deletes a record, and leaves
\* the records as they were.
C27_EmptyBatchHarmless ==
  [][(/\ last'.op \in {"find", "insert", "remove"}
      /\ ValidCall' /\ Len(last'.in.keys) = 0
      /\ last'.op = "find" \/ ~readOnly) =>
       /\ last'.status = "OK"
       /\ DividedByRowCount' => last'.in.numValues # 0
       /\ \A i \in DOMAIN last'.calls :
            last'.calls[i].api \notin RecordApis \cup {"Write"}
       /\ Records' = Records]_vars

====
